---- MODULE Spec2Model ----
(***************************************************************************)
(* Model of cme/protocols/smb/database.py: the SMB protocol database of    *)
(* the tool (hosts, credentials, groups and the relations between them).   *)
(*                                                                         *)
(* Every table is the set of its rows, a row being a record that carries   *)
(* its integer primary key "id".  A statement of the source is modelled by *)
(* what it does to the tables; all statements run on the one session       *)
(* self.conn, so a write is seen by every later read.  Foreign keys are    *)
(* declared by db_schema but the source never turns their enforcement on,  *)
(* so no statement is refused for a dangling reference.  The row that a    *)
(* write statement hands back (results[0] after .first()) is read as the   *)
(* first row, by rowid, that the statement wrote.  A statement that names  *)
(* a column or attribute the table does not have raises: the call ends     *)
(* there, keeping what it had already written.                             *)
(*                                                                         *)
(* Text that the code splits, folds to upper or lower case or matches by   *)
(* substring (domain, username, credtype, group name, ip) is a sequence of *)
(* one-character strings.  A Python value that may be None is None (<<>>)   *)
(* or Some(v) (<<v>>).                                                     *)
(***************************************************************************)
EXTENDS Integers, Sequences, FiniteSets, TLC

VARIABLES computers, users, groups, shares, admin_relations, group_relations,
          loggedin_relations, now, ret, last, calls

vars == <<computers, users, groups, shares, admin_relations, group_relations,
          loggedin_relations, now, ret, last, calls>>

(***************************************************************************)
(* Python / SQL values                                                     *)
(***************************************************************************)
None == <<>>
Some(v) == <<v>>
Val(x) == x[1]

\* Python truth value of an optional integer (None and 0 are false)
TruthyId(x) == x # None /\ Val(x) # 0

\* '' stored in the integer column pillaged_from_computerid; like 0 it is false
\* in Python and is no row's id
Blank == Some(0)

\* what a call hands back: None, a row id, the result object of a statement, or
\* an exception
RetNone == [kind |-> "none", id |-> 0]
RetId(id) == [kind |-> "id", id |-> id]
RetResult == [kind |-> "result", id |-> 0]
RetRaised == [kind |-> "raised", id |-> 0]

\* two reporters use the database at once; each makes one report_host and one
\* report_credential call, and of each call it has run nothing yet (idle), the
\* lookup and not yet the write (looked), or all of it (done)
Callers == {"first", "second"}

RacingOps == {"add_computer", "add_credential"}

Idle == [pc |-> "idle", args |-> None, results |-> {}]

LowerLetters == <<"a","b","c","d","e","f","g","h","i","j","k","l","m",
                  "n","o","p","q","r","s","t","u","v","w","x","y","z">>
UpperLetters == <<"A","B","C","D","E","F","G","H","I","J","K","L","M",
                  "N","O","P","Q","R","S","T","U","V","W","X","Y","Z">>

\* the upper-case and lower-case form of each letter
ToUpper == [c \in {LowerLetters[i] : i \in 1..Len(LowerLetters)} |->
               UpperLetters[CHOOSE i \in 1..Len(LowerLetters) : LowerLetters[i] = c]]
ToLower == [c \in {UpperLetters[i] : i \in 1..Len(UpperLetters)} |->
               LowerLetters[CHOOSE i \in 1..Len(UpperLetters) : UpperLetters[i] = c]]

UpperChar(c) == IF c \in DOMAIN ToUpper THEN ToUpper[c] ELSE c

LowerChar(c) == IF c \in DOMAIN ToLower THEN ToLower[c] ELSE c

\* str.upper() and SQL lower(), letter by letter
UpperLetterwise(s) == [i \in 1..Len(s) |-> UpperChar(s[i])]
LowerLetterwise(s) == [i \in 1..Len(s) |-> LowerChar(s[i])]

\* s.split('.')[0]: the text before the first '.', all of s when it has none
BeforeFirstDot(s) ==
    IF \E i \in 1..Len(s) : s[i] = "."
    THEN SubSeq(s, 1, (CHOOSE i \in 1..Len(s) :
                          s[i] = "." /\ \A j \in 1..(i-1) : s[j] # ".") - 1)
    ELSE s

\* SQL  col LIKE '%term%'  on text without wildcard characters
Contains(s, term) ==
    \E i \in 0..(Len(s) - Len(term)) : SubSeq(s, i + 1, i + Len(term)) = term

(***************************************************************************)
(* Rows and result sets                                                    *)
(***************************************************************************)
Ids(table) == {r.id : r \in table}

MaxOf(S) == CHOOSE m \in S : \A x \in S : x <= m

\* "id" integer PRIMARY KEY: an insert without an id gets max(id) + 1
NextId(table) == IF table = {} THEN 1 ELSE MaxOf(Ids(table)) + 1

RECURSIVE RowsInOrder(_)
\* the rows of a result set as .all() lists them: by ascending rowid
RowsInOrder(rows) ==
    IF rows = {} THEN <<>>
    ELSE LET first == CHOOSE r \in rows : \A q \in rows : r.id <= q.id
         IN  <<first>> \o RowsInOrder(rows \ {first})

(***************************************************************************)
(* Bounds: the largest row id a table hands out, and the last clock value  *)
(***************************************************************************)
MaxUserId == 2
MaxGroupRelationId == 2
MaxAdminRelationId == 2
MaxTime == 2
MaxShareId == 2

(***************************************************************************)
(* Inputs                                                                  *)
(***************************************************************************)
Ip5  == <<"1","0",".","5">>
Ip50 == <<"1","0",".","5","0">>
Ips == {Ip5, Ip50}

CorpLocal == <<"c","o","r","p",".","l","o","c","a","l">>
CorpShort == <<"C","O","R","P">>
CorpMixed == <<"C","o","r","p">>
LabDotted == <<"l","a","b",".","c","o","r","p">>
DomainInputs == {CorpLocal, CorpShort, CorpMixed, LabDotted}
HostDomainInputs == {CorpLocal, LabDotted}

Bob     == <<"b","o","b">>
BobCaps == <<"B","O","B">>
Amy     == <<"a","m","y">>

NoType == <<>>
Hash   == <<"h","a","s","h">>

Admins     == <<"A","d","m","i","n","s">>
AdminsCaps == <<"A","D","M","I","N","S">>

\* every text the calls pass in, and what the code makes of it
TextInputs == DomainInputs \cup {Bob, BobCaps, Amy, NoType, Hash, Admins, AdminsCaps}
               \cup Ips
Texts == TextInputs \cup {BeforeFirstDot(t) : t \in TextInputs}
            \cup {UpperLetterwise(BeforeFirstDot(t)) : t \in TextInputs}

\* the letterwise results, worked out once for the texts above
UpperTable == [t \in Texts |-> UpperLetterwise(t)]
LowerTable == [t \in Texts |-> LowerLetterwise(t)]

Upper(s) == IF s \in Texts THEN UpperTable[s] ELSE UpperLetterwise(s)
Lower(s) == IF s \in Texts THEN LowerTable[s] ELSE LowerLetterwise(s)

NormalizeNoUpper(domain) == BeforeFirstDot(domain)

\* domain.split('.')[0].upper()
NormalizeDomain(domain) == Upper(BeforeFirstDot(domain))

\* report_host arguments other than ip and domain
HostReport(hostname, os, smbv1, signing, spooler, zerologon, petitpotam, dc) ==
    [hostname |-> hostname, os |-> os, smbv1 |-> smbv1, signing |-> signing,
     spooler |-> spooler, zerologon |-> zerologon, petitpotam |-> petitpotam,
     dc |-> dc]

HostReports ==
    { HostReport(None, None, None, None, None, None, None, None),
      HostReport(None, None, None, None, None, None, None, Some(TRUE)),
      HostReport(Some("DC01"), None, None, None, None, None, None, None),
      HostReport(Some("DC01"), Some("Windows"), Some(TRUE), Some(TRUE),
                 None, None, None, None),
      HostReport(None, None, None, None, Some(TRUE), Some(FALSE), Some(TRUE), None),
      HostReport(Some("WS01"), Some("Linux"), Some(FALSE), Some(FALSE),
                 Some(FALSE), Some(TRUE), Some(FALSE), Some(FALSE)) }

HostColumns == {"hostname", "os", "smbv1", "signing", "spooler", "zerologon",
                "petitpotam", "dc"}

(***************************************************************************)
(* The call that ran last: its name and arguments, the ids of the rows its *)
(* lookup found when it began, whether it repeats, argument for argument,  *)
(* the call before it, that call having found no row, and whether it is    *)
(* the report_credential before it spelled differently.                    *)
(***************************************************************************)
\* two spellings of one principal: the same text before the first '.' of the
\* domain and the same username, letter case aside
SamePrincipal(a, b) ==
    /\ LowerLetterwise(BeforeFirstDot(a.domain)) = LowerLetterwise(BeforeFirstDot(b.domain))
    /\ LowerLetterwise(a.username) = LowerLetterwise(b.username)

DiffersOnlyInSpelling(a, b) ==
    /\ SamePrincipal(a, b)
    /\ a.credtype = b.credtype /\ a.password = b.password
    /\ a.group_id = b.group_id /\ a.pillaged_from = b.pillaged_from
    /\ a.domain # b.domain /\ a.username # b.username

Called(op, call, hit) ==
    [op |-> op, args |-> call, hit |-> hit,
     again |-> last.op = op /\ last.args = call /\ last.hit = {},
     respelled |-> /\ op = "add_credential"
                   /\ last.op = op
                   /\ DiffersOnlyInSpelling(last.args, call)]

(***************************************************************************)
(* add_computer                                                            *)
(***************************************************************************)
ComputersByIpLike(ip) == {c \in computers : Contains(c.ip, ip)}

\* select(ComputersTable).filter(ComputersTable.c.ip == ip)
ComputersByIp(ip) == {c \in computers : c.ip = ip}

\* the host dict of a computer that is not in the table yet (no "id" key)
NewHost(id, ip, domain, rep) ==
    [id |-> id, ip |-> ip, domain |-> domain,
     hostname |-> rep.hostname, os |-> rep.os, dc |-> rep.dc,
     smbv1 |-> rep.smbv1, signing |-> rep.signing, spooler |-> rep.spooler,
     zerologon |-> rep.zerologon, petitpotam |-> rep.petitpotam]

MergeHostReplace(row, ip, domain, rep) == NewHost(row.id, ip, domain, rep)

\* computer_data: the stored row with every argument that is not None written over it
MergeHost(row, ip, domain, rep) ==
    [id |-> row.id, ip |-> ip, domain |-> domain,
     hostname   |-> IF rep.hostname # None THEN rep.hostname ELSE row.hostname,
     os         |-> IF rep.os # None THEN rep.os ELSE row.os,
     smbv1      |-> IF rep.smbv1 # None THEN rep.smbv1 ELSE row.smbv1,
     signing    |-> IF rep.signing # None THEN rep.signing ELSE row.signing,
     spooler    |-> IF rep.spooler # None THEN rep.spooler ELSE row.spooler,
     zerologon  |-> IF rep.zerologon # None THEN rep.zerologon ELSE row.zerologon,
     petitpotam |-> IF rep.petitpotam # None THEN rep.petitpotam ELSE row.petitpotam,
     dc         |-> IF rep.dc # None THEN rep.dc ELSE row.dc]

RECURSIVE InsertKeepingOld(_, _)
InsertKeepingOld(table, rows) ==
    IF rows = {} THEN table
    ELSE LET r == CHOOSE x \in rows : TRUE
         IN  InsertKeepingOld(table \cup {[r EXCEPT !.id = NextId(table)]},
                              rows \ {r})

\* INSERT of rows that carry an id into computers, whose key is declared
\* "id" integer PRIMARY KEY ON CONFLICT REPLACE: the stored row with that id goes
UpsertComputers(table, rows) ==
    {c \in table : c.id \notin Ids(rows)} \cup rows

update_hosts_in_transaction(results, stored, ip, domain, rep) ==
    IF {c \in stored : c.ip = ip} = {}
    THEN {NewHost(NextId(stored), ip, domain, rep)}
    ELSE {MergeHost(host, ip, domain, rep) : host \in {c \in stored : c.ip = ip}}

\* update_hosts: the host dict when the lookup found no row (it has no "id";
\* the table stored at the time of the insert numbers it), else the merged
\* rows.  results is what the lookup found, stored what the table holds when
\* the statement runs.
update_hosts(results, stored, ip, domain, rep) ==
    IF results = {}
    THEN {NewHost(NextId(stored), ip, domain, rep)}
    ELSE {MergeHost(host, ip, domain, rep) : host \in results}

add_computer(ip, domain_arg, rep) ==
    LET domain  == NormalizeDomain(domain_arg)
        results == ComputersByIp(ip)
        call == [ip |-> ip, domain |-> domain_arg, rep |-> rep]
    IN  /\ computers' = UpsertComputers(computers,
                            update_hosts(results, computers, ip, domain, rep))
        /\ ret' = RetNone
        /\ last' = Called("add_computer", call, Ids(results))
        /\ UNCHANGED <<users, groups, admin_relations, group_relations, shares,
                       now, loggedin_relations, calls>>

(***************************************************************************)
(* Existence checks and lookups                                            *)
(***************************************************************************)
\* is_group_valid: a group row with this id exists
is_group_valid(group_id) == \E g \in groups : g.id = group_id

\* is_computer_valid: a computer row with this id exists
is_computer_valid(host_id) == \E c \in computers : c.id = host_id

\* get_group_relations, the rows its query selects.  The filter on the user is
\* written against the relation's own id column.
get_group_relations(rels, user_id, group_id) ==
    IF TruthyId(user_id) /\ TruthyId(group_id)
    THEN {r \in rels : r.id = Val(user_id) /\ r.groupid = Val(group_id)}
    ELSE IF TruthyId(user_id)
    THEN {r \in rels : r.id = Val(user_id)}
    ELSE {r \in rels : r.groupid = Val(group_id)}

\* update(GroupRelationsTable).values(gr_data): no WHERE clause, every row is written
UpdateEveryGroupRelation(rels, user_id, group_id) ==
    {[r EXCEPT !.userid = user_id, !.groupid = group_id] : r \in rels}

FirstId(rows) == CHOOSE i \in Ids(rows) : \A j \in Ids(rows) : i <= j

(***************************************************************************)
(* add_credential                                                          *)
(***************************************************************************)
CredentialArgs(credtype, domain, username, password, group_id, pillaged_from) ==
    [credtype |-> credtype, domain |-> domain, username |-> username,
     password |-> password, group_id |-> group_id, pillaged_from |-> pillaged_from]

UsersMatchingExactName(domain, username, credtype) ==
    {u \in users : /\ Lower(u.domain) = Lower(domain)
                   /\ u.username = username
                   /\ Lower(u.credtype) = Lower(credtype)}

\* the select of add_credential: domain, username and credtype, each compared
\* through lower()
UsersMatching(domain, username, credtype) ==
    {u \in users : /\ Lower(u.domain) = Lower(domain)
                   /\ Lower(u.username) = Lower(username)
                   /\ Lower(u.credtype) = Lower(credtype)}

BareAlways(user) == TRUE

\* not user[3] and not user[4] and not user[5]: no password, no credtype and no
\* pillaged-from computer
Bare(user) ==
    user.password = "" /\ user.credtype = <<>> /\ ~TruthyId(user.pillaged)

\* credential_data gets the keys "groupid" and "pillaged_from" when those
\* arguments are not None; users has no column of either name
UnknownCredentialColumns(a) == a.group_id # None \/ a.pillaged_from # None

\* update(UsersTable).values(credential_data): no WHERE clause, every row is written
UpdateEveryUser(tbl, a, domain) ==
    {[u EXCEPT !.credtype = a.credtype, !.domain = domain,
               !.username = a.username, !.password = a.password] : u \in tbl}

RECURSIVE CompleteBare(_, _, _, _, _)
\* for user in results: the loop of the branch that found matching rows
CompleteBare(results, i, a, domain, st) ==
    IF i > Len(results) THEN st
    ELSE IF ~Bare(results[i]) THEN CompleteBare(results, i + 1, a, domain, st)
    ELSE IF UnknownCredentialColumns(a) THEN [st EXCEPT !.raised = TRUE]
    ELSE LET written == UpdateEveryUser(st.users, a, domain)
             user_rowid == Some(FirstId(written))
             linked == get_group_relations(st.group_relations, user_rowid, a.group_id)
         IN  CompleteBare(results, i + 1, a, domain,
                 [st EXCEPT !.users = written,
                            !.user_rowid = user_rowid,
                            !.group_relations =
                                IF TruthyId(a.group_id) /\ linked = {}
                                THEN UpdateEveryGroupRelation(
                                         @, Val(user_rowid), Val(a.group_id))
                                ELSE @])

add_credential(a) ==
    LET domain  == NormalizeDomain(a.domain)
        results == UsersMatching(domain, a.username, a.credtype)
        new_id  == NextId(users)
        rejected ==
            \/ TruthyId(a.group_id) /\ ~is_group_valid(Val(a.group_id))
            \/ TruthyId(a.pillaged_from) /\ ~is_computer_valid(Val(a.pillaged_from))
        st == CompleteBare(RowsInOrder(results), 1, a, domain,
                  [users |-> users, group_relations |-> group_relations,
                   user_rowid |-> None, raised |-> FALSE])
    IN  /\ UNCHANGED <<computers, groups, admin_relations, shares, now,
                       loggedin_relations, calls>>
        /\ IF rejected
           THEN /\ UNCHANGED <<users, group_relations>>
                /\ ret' = RetNone
                /\ last' = Called("add_credential", a, {})
           ELSE /\ last' = Called("add_credential", a, Ids(results))
                /\ IF results = {}
                   THEN /\ new_id <= MaxUserId
                        /\ users' = users \cup
                              {[id |-> new_id, domain |-> domain,
                                username |-> a.username, password |-> a.password,
                                credtype |-> a.credtype,
                                pillaged |-> a.pillaged_from]}
                        /\ IF TruthyId(a.group_id)
                           THEN /\ NextId(group_relations) <= MaxGroupRelationId
                                /\ group_relations' = group_relations \cup
                                      {[id |-> NextId(group_relations),
                                        userid |-> new_id,
                                        groupid |-> Val(a.group_id)]}
                           ELSE UNCHANGED group_relations
                        /\ ret' = RetId(new_id)
                   ELSE /\ users' = st.users
                        /\ group_relations' = st.group_relations
                        /\ ret' = IF st.raised THEN RetRaised
                                  ELSE IF st.user_rowid = None THEN RetNone
                                  ELSE RetId(Val(st.user_rowid))

(***************************************************************************)
(* add_user                                                                *)
(***************************************************************************)
UserArgs(domain, username, group_id) ==
    [domain |-> domain, username |-> username, group_id |-> group_id]

\* the query of add_user: domain and username, each compared through lower()
UsersByName(domain, username) ==
    {u \in users : /\ Lower(u.domain) = Lower(domain)
                   /\ Lower(u.username) = Lower(username)}

NameDiffersEither(domain, username, user) ==
    domain # user.domain \/ username # user.username

\* (domain != user[1]) and (username != user[2])
NameDiffers(domain, username, user) ==
    domain # user.domain /\ username # user.username

RECURSIVE RecordKnownUsers(_, _, _, _, _)
\* for user in results: the loop of the branch that found the user.  user_rowid
\* is RetNone until the first pass sets it.
RecordKnownUsers(results, i, a, domain, st) ==
    IF i > Len(results) THEN st
    ELSE LET user == results[i]
             rewrite == NameDiffers(domain, a.username, user)
         IN  IF rewrite /\ a.group_id # None
             THEN [st EXCEPT !.raised = TRUE]
             ELSE LET users1 ==
                          IF rewrite
                          THEN {IF u.id = user.id
                                THEN [u EXCEPT !.password = "", !.credtype = <<>>,
                                               !.pillaged = Blank,
                                               !.domain = domain,
                                               !.username = a.username]
                                ELSE u : u \in st.users}
                          ELSE st.users
                      rowid1 == IF rewrite THEN RetResult ELSE st.user_rowid
                      rowid2 == IF rowid1.kind = "none" THEN RetId(user.id)
                                ELSE rowid1
                      relink ==
                          /\ TruthyId(a.group_id)
                          /\ get_group_relations(st.group_relations,
                                 Some(rowid2.id), a.group_id) = {}
                  IN  RecordKnownUsers(results, i + 1, a, domain,
                          [st EXCEPT !.users = users1,
                                     !.user_rowid = rowid2,
                                     !.group_relations =
                                         IF relink
                                         THEN UpdateEveryGroupRelation(
                                                  @, rowid2.id, Val(a.group_id))
                                         ELSE @])

add_user(a) ==
    LET domain  == NormalizeDomain(a.domain)
        results == UsersByName(domain, a.username)
        new_id  == NextId(users)
        st == RecordKnownUsers(RowsInOrder(results), 1, a, domain,
                  [users |-> users, group_relations |-> group_relations,
                   user_rowid |-> RetNone, raised |-> FALSE])
    IN  /\ UNCHANGED <<computers, groups, admin_relations, shares, now,
                       loggedin_relations, calls>>
        /\ IF TruthyId(a.group_id) /\ ~is_group_valid(Val(a.group_id))
           THEN /\ UNCHANGED <<users, group_relations>>
                /\ ret' = RetNone
                /\ last' = Called("add_user", a, {})
           ELSE /\ last' = Called("add_user", a, Ids(results))
                /\ IF results = {}
                   THEN \* user_data carries the key "group_id", no column of users
                        IF a.group_id # None
                        THEN /\ UNCHANGED <<users, group_relations>>
                             /\ ret' = RetRaised
                        ELSE /\ new_id <= MaxUserId
                             /\ users' = users \cup
                                   {[id |-> new_id, domain |-> domain,
                                     username |-> a.username, password |-> "",
                                     credtype |-> <<>>, pillaged |-> Blank]}
                             /\ UNCHANGED group_relations
                             /\ ret' = RetResult
                   ELSE /\ users' = st.users
                        /\ group_relations' = st.group_relations
                        /\ ret' = IF st.raised THEN RetRaised ELSE st.user_rowid

(***************************************************************************)
(* add_group                                                               *)
(***************************************************************************)
GroupArgs(domain, name, member_count_ad) ==
    [domain |-> domain, name |-> name, member_count_ad |-> member_count_ad]

GroupsMatchingExactName(domain, name) ==
    {g \in groups : /\ Lower(g.domain) = Lower(domain)
                    /\ g.name = name}

\* the query of add_group: domain and name, each compared through lower()
GroupsMatching(domain, name) ==
    {g \in groups : /\ Lower(g.domain) = Lower(domain)
                    /\ Lower(g.name) = Lower(name)}

UpdateGroupStamped(g, a, domain, stamp) ==
    [g EXCEPT !.domain = domain, !.name = a.name,
              !.member_count_ad = a.member_count_ad,
              !.last_query_time = stamp]

\* GroupsTable.update().values(group_data) on one row: group_data holds domain
\* and name, and member_count_ad and last_query_time only when member_count_ad
\* is passed in
UpdateGroup(g, a, domain, stamp) ==
    [g EXCEPT !.domain = domain, !.name = a.name,
              !.member_count_ad = IF a.member_count_ad # None
                                  THEN a.member_count_ad ELSE @,
              !.last_query_time = IF a.member_count_ad # None THEN stamp ELSE @]

\* datetime.now(), read only when member_count_ad is passed in
add_group(a) ==
    LET domain  == NormalizeDomain(a.domain)
        results == GroupsMatching(domain, a.name)
        counted == a.member_count_ad # None
        stamp   == Some(now + 1)
    IN  /\ counted => now < MaxTime
        /\ now' = IF counted THEN now + 1 ELSE now
        /\ groups' =
              IF results # {}
              THEN {IF g \in results THEN UpdateGroup(g, a, domain, stamp)
                    ELSE g : g \in groups}
              ELSE groups \cup
                     {[id |-> NextId(groups), domain |-> domain, name |-> a.name,
                       member_count_ad |-> a.member_count_ad,
                       last_query_time |-> IF counted THEN stamp ELSE None]}
        /\ ret' = RetResult
        /\ last' = Called("add_group", a, Ids(results))
        /\ UNCHANGED <<computers, users, admin_relations, group_relations,
                       shares, loggedin_relations, calls>>

(***************************************************************************)
(* remove_credentials, remove_admin_relation, remove_group_relations       *)
(***************************************************************************)
\* creds_id is the collection of ids to delete
remove_credentials(creds_id) ==
    /\ users' = {u \in users : u.id \notin creds_id}
    /\ ret' = RetNone
    /\ last' = Called("remove_credentials", creds_id, Ids(users) \cap creds_id)
    /\ UNCHANGED <<computers, groups, admin_relations, group_relations, shares,
                   now, loggedin_relations, calls>>

\* with host_ids the filter names AdminRelationsTable.c.hostid, which the table
\* (id, userid, computerid) does not have
remove_admin_relation(user_ids, host_ids) ==
    /\ admin_relations' =
          IF user_ids # {}
          THEN {r \in admin_relations : r.userid \notin user_ids}
          ELSE admin_relations
    /\ ret' = IF user_ids = {} /\ host_ids # {} THEN RetRaised ELSE RetNone
    /\ last' = Called("remove_admin_relation",
                      [user_ids |-> user_ids, host_ids |-> host_ids],
                      {r.id : r \in {x \in admin_relations : x.userid \in user_ids}})
    /\ UNCHANGED <<computers, users, groups, group_relations, shares, now,
                   loggedin_relations, calls>>

remove_group_relations(user_id, group_id) ==
    /\ group_relations' =
          IF TruthyId(user_id)
          THEN {r \in group_relations : r.userid # Val(user_id)}
          ELSE IF TruthyId(group_id)
          THEN {r \in group_relations : r.groupid # Val(group_id)}
          ELSE group_relations
    /\ ret' = RetNone
    /\ last' = Called("remove_group_relations",
                      [user_id |-> user_id, group_id |-> group_id], {})
    /\ UNCHANGED <<computers, users, groups, admin_relations, shares, now,
                   loggedin_relations, calls>>

(***************************************************************************)
(* add_admin_user                                                          *)
(***************************************************************************)
AdminArgs(credtype, domain, username, password, host, user_id) ==
    [credtype |-> credtype, domain |-> domain, username |-> username,
     password |-> password, host |-> host, user_id |-> user_id]

\* users: by id when user_id is passed, else by credtype and password as given
\* and by domain and username through lower()
AdminUsers(a) ==
    IF TruthyId(a.user_id)
    THEN {u \in users : u.id = Val(a.user_id)}
    ELSE {u \in users : /\ u.credtype = a.credtype
                        /\ Lower(u.domain) = Lower(NormalizeDomain(a.domain))
                        /\ Lower(u.username) = Lower(a.username)
                        /\ u.password = a.password}

\* hosts: ip LIKE lower('%host%'); LIKE itself ignores letter case
AdminHosts(a) == {c \in computers : Contains(Lower(c.ip), Lower(a.host))}

\* zip(users, hosts): the i-th user with the i-th host, up to the shorter list
ZipPairs(us, hs) ==
    [i \in 1..(IF Len(us) < Len(hs) THEN Len(us) ELSE Len(hs)) |->
        [userid |-> us[i].id, computerid |-> hs[i].id]]

NoAdminLinks(rels, pair) == {}

\* the select of the links already stored for this user and this host
AdminLinks(rels, pair) ==
    {r \in rels : r.userid = pair.userid /\ r.computerid = pair.computerid}

RECURSIVE LinkPairs(_, _, _)
\* for user, host in zip(users, hosts): insert the link unless one is there
LinkPairs(pairs, i, rels) ==
    IF i > Len(pairs) THEN rels
    ELSE LinkPairs(pairs, i + 1,
             IF AdminLinks(rels, pairs[i]) = {}
             THEN rels \cup {[id |-> NextId(rels), userid |-> pairs[i].userid,
                              computerid |-> pairs[i].computerid]}
             ELSE rels)

add_admin_user(a) ==
    LET pairs  == ZipPairs(RowsInOrder(AdminUsers(a)), RowsInOrder(AdminHosts(a)))
        linked == LinkPairs(pairs, 1, admin_relations)
    IN  /\ \A r \in linked : r.id <= MaxAdminRelationId
        /\ admin_relations' = linked
        /\ ret' = RetNone
        /\ last' = Called("add_admin_user", a,
                          {r.id : r \in {x \in admin_relations :
                               \E i \in 1..Len(pairs) :
                                  x \in AdminLinks(admin_relations, pairs[i])}})
        /\ UNCHANGED <<computers, users, groups, group_relations, shares, now,
                       loggedin_relations, calls>>

(***************************************************************************)
(* add_share                                                               *)
(***************************************************************************)
ShareArgs(computer_id, user_id, name, remark, read, write) ==
    [computer_id |-> computer_id, user_id |-> user_id, name |-> name,
     remark |-> remark, read |-> read, write |-> write]

\* UNIQUE(computerid, userid, name): a NULL userid never equals another
SharesLike(a) ==
    {s \in shares : /\ s.computerid = a.computer_id
                    /\ a.user_id # None /\ s.userid = a.user_id
                    /\ s.name = a.name}

\* the insert is refused (it raises) when the unique key is taken
add_share(a) ==
    /\ IF SharesLike(a) # {}
       THEN /\ UNCHANGED shares
            /\ ret' = RetRaised
       ELSE /\ NextId(shares) <= MaxShareId
            /\ shares' = shares \cup
                  {[id |-> NextId(shares), computerid |-> a.computer_id,
                    userid |-> a.user_id, name |-> a.name, remark |-> a.remark,
                    read |-> a.read, write |-> a.write]}
            /\ ret' = RetId(NextId(shares))
    /\ last' = Called("add_share", a, Ids(SharesLike(a)))
    /\ UNCHANGED <<computers, users, groups, admin_relations, group_relations,
                   now, loggedin_relations, calls>>

(***************************************************************************)
(* Read accessors.  A filter term is None or a text.  Compared with the    *)
(* integer id column, a text of digits is the number it spells and any     *)
(* other text equals no id.                                                *)
(***************************************************************************)
Digits == <<"0","1","2","3","4","5","6","7","8","9">>

DigitValue == [c \in {Digits[i] : i \in 1..Len(Digits)} |->
                  (CHOOSE i \in 1..Len(Digits) : Digits[i] = c) - 1]

RECURSIVE IntegerOf(_)
IntegerOf(t) ==
    IF t = <<>> THEN 0
    ELSE 10 * IntegerOf(SubSeq(t, 1, Len(t) - 1)) + DigitValue[t[Len(t)]]

\* the number the id column is compared with
IdOfTerm(term) ==
    IF term # None /\ Val(term) # <<>>
       /\ \A i \in 1..Len(Val(term)) : Val(term)[i] \in DOMAIN DigitValue
    THEN Some(IntegerOf(Val(term)))
    ELSE None

\* table.c.id == filter_term
RowsById(table, term) == {r \in table : IdOfTerm(term) = Some(r.id)}

\* Python truth value of an optional text (None and '' are false)
TruthyText(x) == x # None /\ Val(x) # <<>>

\* SQL  col LIKE '%term'
EndsWith(s, term) ==
    Len(term) <= Len(s) /\ SubSeq(s, Len(s) - Len(term) + 1, Len(s)) = term

\* .all(): the rows as a list;  .first(): one row, not a list
RetRows(rows) == [kind |-> "rows", id |-> 0, rows |-> RowsInOrder(rows)]
RetRow(rows) ==
    IF rows = {} THEN RetNone
    ELSE [kind |-> "row", id |-> 0, rows |-> <<RowsInOrder(rows)[1]>>]

Keyword == <<"d","c">>

SelectComputersTextFirst(filter_term, domain) ==
    IF filter_term = Some(Keyword)
    THEN {c \in computers :
             /\ c.dc = Some(TRUE)
             /\ TruthyText(domain) => Lower(c.domain) = Lower(Val(domain))}
    ELSE IF TruthyText(filter_term)
    THEN {c \in computers :
             \/ Contains(Lower(c.ip), Lower(Val(filter_term)))
             \/ /\ c.hostname # None
                /\ EndsWith(Lower(Val(c.hostname)), Lower(Val(filter_term)))}
    ELSE computers

\* the rows get_computers selects: by id, by the 'dc' keyword (and domain), by
\* ip containing or hostname ending with the term, or all
SelectComputers(filter_term, domain) ==
    IF RowsById(computers, filter_term) # {}
    THEN RowsById(computers, filter_term)
    ELSE IF filter_term = Some(Keyword)
    THEN {c \in computers :
             /\ c.dc = Some(TRUE)
             /\ TruthyText(domain) => Lower(c.domain) = Lower(Val(domain))}
    ELSE IF TruthyText(filter_term)
    THEN {c \in computers :
             \/ Contains(Lower(c.ip), Lower(Val(filter_term)))
             \/ /\ c.hostname # None
                /\ EndsWith(Lower(Val(c.hostname)), Lower(Val(filter_term)))}
    ELSE computers

Read(op, call, result) ==
    /\ ret' = result
    /\ last' = Called(op, call, {})
    /\ UNCHANGED <<computers, users, groups, shares, admin_relations,
                   group_relations, now, loggedin_relations, calls>>

get_computers(filter_term, domain) ==
    Read("get_computers", [filter_term |-> filter_term, domain |-> domain],
         IF RowsById(computers, filter_term) # {}
         THEN RetRow(SelectComputers(filter_term, domain))
         ELSE RetRows(SelectComputers(filter_term, domain)))

\* is_credential_valid adds the Python value `password is not None`, which is
\* True of the column object, to the filter on the id
SelectCredentials(filter_term, cred_type) ==
    IF RowsById(users, filter_term) # {}
    THEN RowsById(users, filter_term)
    ELSE IF TruthyText(cred_type)
    THEN {u \in users : u.credtype = Val(cred_type)}
    ELSE IF TruthyText(filter_term)
    THEN {u \in users : Contains(Lower(u.username), Lower(Val(filter_term)))}
    ELSE users

get_credentials(filter_term, cred_type) ==
    Read("get_credentials", [filter_term |-> filter_term, cred_type |-> cred_type],
         RetRows(SelectCredentials(filter_term, cred_type)))

SelectGroups(filter_term) ==
    IF RowsById(groups, filter_term) # {}
    THEN RowsById(groups, filter_term)
    ELSE IF TruthyText(filter_term)
    THEN {g \in groups : Contains(Lower(g.name), Lower(Val(filter_term)))}
    ELSE groups

\* with group_name and group_domain the filter names GroupsTable.c.username,
\* which the table (id, domain, name, member_count_ad, last_query_time) does
\* not have
get_groups(filter_term, group_name, group_domain) ==
    Read("get_groups",
         [filter_term |-> filter_term, group_name |-> group_name,
          group_domain |-> group_domain],
         IF RowsById(groups, filter_term) # {}
         THEN RetRow(SelectGroups(filter_term))
         ELSE IF TruthyText(group_name) /\ TruthyText(group_domain)
         THEN RetRaised
         ELSE RetRows(SelectGroups(filter_term)))

SelectShares(filter_term) ==
    IF RowsById(shares, filter_term) # {}
    THEN RowsById(shares, filter_term)
    ELSE IF TruthyText(filter_term)
    THEN {s \in shares : Contains(Lower(s.name), Lower(Val(filter_term)))}
    ELSE shares

get_shares(filter_term) ==
    Read("get_shares", [filter_term |-> filter_term],
         RetRows(SelectShares(filter_term)))

get_admin_relations(user_id, host_id) ==
    Read("get_admin_relations", [user_id |-> user_id, host_id |-> host_id],
         RetRows(IF TruthyId(user_id)
                 THEN {r \in admin_relations : r.userid = Val(user_id)}
                 ELSE IF TruthyId(host_id)
                 THEN {r \in admin_relations : r.computerid = Val(host_id)}
                 ELSE admin_relations))

\* get_group_relations as callers reach it: without user_id and group_id no
\* branch binds q, and the execute that follows raises
read_group_relations(user_id, group_id) ==
    Read("get_group_relations", [user_id |-> user_id, group_id |-> group_id],
         IF ~TruthyId(user_id) /\ ~TruthyId(group_id)
         THEN RetRaised
         ELSE RetRows(get_group_relations(group_relations, user_id, group_id)))

(***************************************************************************)
(* get_shares_by_access, get_users_with_share_access                       *)
(***************************************************************************)
\* q.filter(...) builds a new statement and leaves q as it was; the three
\* filters are built and dropped, and the statement that runs is
\* select(SharesTable)
SelectSharesByAccess(permissions, share_id) == shares

get_shares_by_access(permissions, share_id) ==
    Read("get_shares_by_access",
         [permissions |-> permissions, share_id |-> share_id],
         RetRows(SelectSharesByAccess(Lower(permissions), share_id)))

\* the filter on name and computerid is part of the statement that runs; the
\* filters on read and write are built and dropped
SelectSharesOfComputer(computer_id, share_name, permissions) ==
    {s \in shares : s.name = share_name /\ s.computerid = computer_id}

\* select(SharesTable.c.userid): the rows hold that column alone
UseridColumn(rows) ==
    [kind |-> "rows", id |-> 0,
     rows |-> [i \in 1..Cardinality(rows) |->
                  [userid |-> RowsInOrder(rows)[i].userid]]]

get_users_with_share_access(computer_id, share_name, permissions) ==
    Read("get_users_with_share_access",
         [computer_id |-> computer_id, share_name |-> share_name,
          permissions |-> permissions],
         UseridColumn(SelectSharesOfComputer(computer_id, share_name,
                                             Lower(permissions))))

(***************************************************************************)
(* clear_database                                                          *)
(***************************************************************************)
MetadataEntityTables == {"computers", "users", "groups", "shares"}

\* metadata.tables after reflect_tables: every table db_schema creates
MetadataTables ==
    {"computers", "users", "groups", "shares", "admin_relations",
     "group_relations", "loggedin_relations"}

\* conn.query(table).delete(), for the tables the loop visits
Deleted(table, rows) == IF table \in MetadataTables THEN {} ELSE rows

\* the tables that hold a row
Filled ==
    {t \in MetadataTables :
        \/ t = "computers" /\ computers # {}
        \/ t = "users" /\ users # {}
        \/ t = "groups" /\ groups # {}
        \/ t = "shares" /\ shares # {}
        \/ t = "admin_relations" /\ admin_relations # {}
        \/ t = "group_relations" /\ group_relations # {}
        \/ t = "loggedin_relations" /\ loggedin_relations # {}}

clear_database ==
    /\ computers' = Deleted("computers", computers)
    /\ users' = Deleted("users", users)
    /\ groups' = Deleted("groups", groups)
    /\ shares' = Deleted("shares", shares)
    /\ admin_relations' = Deleted("admin_relations", admin_relations)
    /\ group_relations' = Deleted("group_relations", group_relations)
    /\ loggedin_relations' = Deleted("loggedin_relations", loggedin_relations)
    /\ ret' = RetNone
    /\ last' = Called("clear_database", None, Filled)
    /\ UNCHANGED <<now, calls>>

(***************************************************************************)
(* Two reporters at once.  A call is a sequence of statements on the store *)
(* with nothing held between them: its lookup is one step and its write    *)
(* another, and the other reporter's steps may fall in between.            *)
(***************************************************************************)
Looked(call, results) == [pc |-> "looked", args |-> call, results |-> results]

\* a reporter runs one call at a time
Between(c) == \A op \in RacingOps : calls[c][op].pc # "looked"

\* add_computer up to its select
add_computer_lookup(c, ip, domain_arg, rep) ==
    /\ Between(c)
    /\ calls[c]["add_computer"].pc = "idle"
    /\ calls' = [calls EXCEPT ![c]["add_computer"] =
                    Looked([ip |-> ip, domain |-> domain_arg, rep |-> rep],
                           ComputersByIp(ip))]
    /\ UNCHANGED <<computers, users, groups, shares, admin_relations,
                   group_relations, loggedin_relations, now, ret, last>>

\* add_computer from the host dict to the upsert, on what the select found
add_computer_write(c) ==
    LET call == calls[c]["add_computer"]
        a    == call.args
    IN  /\ call.pc = "looked"
        /\ computers' = UpsertComputers(computers,
                            update_hosts(call.results, computers, a.ip,
                                         NormalizeDomain(a.domain), a.rep))
        /\ ret' = RetNone
        /\ last' = Called("add_computer", a, Ids(call.results))
        /\ calls' = [calls EXCEPT ![c]["add_computer"].pc = "done"]
        /\ UNCHANGED <<users, groups, shares, admin_relations, group_relations,
                       loggedin_relations, now>>

\* add_credential up to its select, for a call that passes the two guards
add_credential_lookup(c, a) ==
    /\ Between(c)
    /\ calls[c]["add_credential"].pc = "idle"
    /\ ~(TruthyId(a.group_id) /\ ~is_group_valid(Val(a.group_id)))
    /\ ~(TruthyId(a.pillaged_from) /\ ~is_computer_valid(Val(a.pillaged_from)))
    /\ calls' = [calls EXCEPT ![c]["add_credential"] =
                    Looked(a,
                           UsersMatching(NormalizeDomain(a.domain), a.username,
                                         a.credtype))]
    /\ UNCHANGED <<computers, users, groups, shares, admin_relations,
                   group_relations, loggedin_relations, now, ret, last>>

\* add_credential from `if not results` on, on what the select found
add_credential_write(c) ==
    LET call    == calls[c]["add_credential"]
        a       == call.args
        domain  == NormalizeDomain(a.domain)
        results == call.results
        new_id  == NextId(users)
        st == CompleteBare(RowsInOrder(results), 1, a, domain,
                  [users |-> users, group_relations |-> group_relations,
                   user_rowid |-> None, raised |-> FALSE])
    IN  /\ call.pc = "looked"
        /\ IF results = {}
           THEN /\ new_id <= MaxUserId
                /\ users' = users \cup
                      {[id |-> new_id, domain |-> domain,
                        username |-> a.username, password |-> a.password,
                        credtype |-> a.credtype, pillaged |-> a.pillaged_from]}
                /\ IF TruthyId(a.group_id)
                   THEN /\ NextId(group_relations) <= MaxGroupRelationId
                        /\ group_relations' = group_relations \cup
                              {[id |-> NextId(group_relations),
                                userid |-> new_id,
                                groupid |-> Val(a.group_id)]}
                   ELSE UNCHANGED group_relations
                /\ ret' = RetId(new_id)
           ELSE /\ users' = st.users
                /\ group_relations' = st.group_relations
                /\ ret' = IF st.raised THEN RetRaised
                          ELSE IF st.user_rowid = None THEN RetNone
                          ELSE RetId(Val(st.user_rowid))
        /\ last' = Called("add_credential", a, Ids(results))
        /\ calls' = [calls EXCEPT ![c]["add_credential"].pc = "done"]
        /\ UNCHANGED <<computers, groups, shares, admin_relations,
                       loggedin_relations, now>>

(***************************************************************************)
(* Specifications                                                          *)
(***************************************************************************)
Init ==
    /\ computers = {}
    /\ users = {}
    /\ groups = {}
    /\ shares = {}
    /\ admin_relations = {}
    /\ group_relations = {}
    /\ loggedin_relations = {}
    /\ now = 0
    /\ ret = RetNone
    /\ last = [op |-> "init", args |-> None, hit |-> {}, again |-> FALSE,
               respelled |-> FALSE]
    /\ calls = [c \in Callers |-> [op \in RacingOps |-> Idle]]

ReportHost ==
    \E ip \in Ips, domain \in HostDomainInputs, rep \in HostReports :
        add_computer(ip, domain, rep)

NextHost == ReportHost

\* the store under report_host alone
SpecHost == Init /\ [][NextHost]_vars

NoReport == HostReport(None, None, None, None, None, None, None, None)

\* one host and one group, for the ids that credentials refer to
ReportHostBrief == add_computer(Ip5, CorpLocal, NoReport)

ReportGroupBrief == add_group(GroupArgs(CorpMixed, Admins, None))

\* (domain, username) as callers spell them
Principals == {<<CorpLocal, Bob>>, <<CorpShort, BobCaps>>, <<LabDotted, Amy>>}

AddUser ==
    \E p \in Principals, group_id \in {None, Some(1)} :
        add_user(UserArgs(p[1], p[2], group_id))

\* (group_id, pillaged_from) other than (None, None)
References == {<<Some(1), None>>, <<None, Some(1)>>, <<Some(0), None>>}

\* every principal with and without a type; every principal with a second
\* secret; one principal with each reference
CredentialCalls ==
    {CredentialArgs(t, p[1], p[2], "pw1", None, None) :
        t \in {NoType, Hash}, p \in Principals}
    \cup {CredentialArgs(Hash, p[1], p[2], "pw2", None, None) : p \in Principals}
    \cup {CredentialArgs(t, LabDotted, Amy, "pw1", r[1], r[2]) :
            t \in {NoType, Hash}, r \in References}

ReportCredential == \E a \in CredentialCalls : add_credential(a)

NextCred ==
    \/ ReportHostBrief
    \/ ReportGroupBrief
    \/ AddUser
    \/ ReportCredential

\* the credential table under add_user and report_credential
SpecCred == Init /\ [][NextCred]_vars

\* report_group as callers spell it, with and without a member count
GroupCalls ==
    {GroupArgs(d, n, c) : d \in {CorpLocal, CorpMixed, LabDotted},
                          n \in {Admins, AdminsCaps},
                          c \in {None, Some(5), Some(7)}}

ReportGroup == \E a \in GroupCalls : add_group(a)

NextGroup == ReportGroup

\* the group table under report_group alone
SpecGroup == Init /\ [][NextGroup]_vars

\* add_user next to report_credential calls of the same principals, one of
\* them a member of the group
KnownCredentialCalls ==
    {CredentialArgs(t, p[1], p[2], "pw1", None, None) :
        t \in {NoType, Hash}, p \in {<<CorpLocal, Bob>>, <<LabDotted, Amy>>}}
    \cup {CredentialArgs(Hash, LabDotted, Amy, "pw1", Some(1), None)}

ReportKnownCredential == \E a \in KnownCredentialCalls : add_credential(a)

NextUser ==
    \/ ReportGroupBrief
    \/ AddUser
    \/ ReportKnownCredential

\* the credential table under add_user
SpecUser == Init /\ [][NextUser]_vars

(***************************************************************************)
(* Two reporters, one report_host and one report_credential call each      *)
(***************************************************************************)
RacingHosts ==
    {<<Ip5, NoReport>>,
     <<Ip5, HostReport(Some("DC01"), None, None, None, None, None, None, None)>>,
     <<Ip50, NoReport>>}

RacingCredentials ==
    {CredentialArgs(Hash, CorpLocal, Bob, "pw1", None, None),
     CredentialArgs(Hash, CorpShort, BobCaps, "pw2", None, None)}

LookUpHost ==
    \E c \in Callers, h \in RacingHosts :
        add_computer_lookup(c, h[1], CorpLocal, h[2])

WriteHost == \E c \in Callers : add_computer_write(c)

LookUpCredential ==
    \E c \in Callers, a \in RacingCredentials : add_credential_lookup(c, a)

WriteCredential == \E c \in Callers : add_credential_write(c)

NextRace ==
    \/ LookUpHost
    \/ WriteHost
    \/ LookUpCredential
    \/ WriteCredential

SpecRace == Init /\ [][NextRace]_vars

(***************************************************************************)
(* The read accessors, on a store of two hosts, two credentials, one group *)
(* and two shares                                                          *)
(***************************************************************************)
Pdc == <<"P","D","C">>

HostsToRead ==
    {<<Ip5, HostReport(Some(Pdc), None, None, None, None, None, None, Some(TRUE))>>,
     <<Ip50, NoReport>>}

ReportHostToRead == \E h \in HostsToRead : add_computer(h[1], CorpLocal, h[2])

\* rejected until the group is there
ReportCredentialToRead ==
    add_credential(CredentialArgs(Hash, CorpLocal, Bob, "pw1", Some(1), None))

CShare == <<"C","$">>
Dc1Share == <<"d","c","1">>

SharesToRead ==
    {ShareArgs(1, Some(1), CShare, "", TRUE, FALSE),
     ShareArgs(1, None, Dc1Share, "", TRUE, TRUE)}

AddShare == \E a \in SharesToRead : add_share(a)

LinkAdminToRead == add_admin_user(AdminArgs(Hash, CorpLocal, Bob, "pw1", Ip5, None))

One == <<"1">>
Two == <<"2">>

\* filter terms: none, empty, a row id, the keyword, a fragment of an ip, of a
\* hostname, of a username, of a group name and of a share name
HostTerms == {None, Some(<<>>), Some(One), Some(Two), Some(Keyword), Some(Ip5),
              Some(<<"D","C">>)}

GetComputers ==
    \/ \E t \in HostTerms : get_computers(t, None)
    \/ get_computers(Some(Keyword), Some(CorpShort))

GetCredentials ==
    \E c \in {<<None, None>>, <<Some(One), None>>, <<Some(<<"B","O">>), None>>,
              <<Some(One), Some(Hash)>>, <<Some(<<"B","O">>), Some(Hash)>>} :
        get_credentials(c[1], c[2])

GetGroups ==
    \/ \E t \in {None, Some(One), Some(<<"a","d","m">>)} : get_groups(t, None, None)
    \/ get_groups(None, Some(Admins), Some(CorpLocal))

GetShares ==
    \E t \in {None, Some(One), Some(<<"c">>)} : get_shares(t)

GetAdminRelations ==
    \E u \in {None, Some(1)}, h \in {None, Some(1)} : get_admin_relations(u, h)

GetGroupRelations ==
    \E u \in {None, Some(1)}, g \in {None, Some(1)} : read_group_relations(u, g)

GetSharesByAccess ==
    \E permissions \in {<<"r">>, <<"W">>, <<"r","w">>},
       share_id \in {None, Some(1)} :
        get_shares_by_access(permissions, share_id)

GetUsersWithShareAccess ==
    \E permissions \in {<<"r">>, <<"W">>} :
        get_users_with_share_access(1, CShare, permissions)

NextRead ==
    \/ ReportHostToRead
    \/ ReportGroupBrief
    \/ ReportCredentialToRead
    \/ AddShare
    \/ LinkAdminToRead
    \/ GetComputers
    \/ GetCredentials
    \/ GetGroups
    \/ GetShares
    \/ GetSharesByAccess
    \/ GetUsersWithShareAccess
    \/ GetAdminRelations
    \/ GetGroupRelations

SpecRead == Init /\ [][NextRead]_vars

(***************************************************************************)
(* A store that fills every table, and the bulk reset                      *)
(***************************************************************************)
\* the constructor binds to the database file it is given and reflects its
\* tables; no operation of the class writes loggedin_relations, so a row of
\* that table is one the file held before
InitReopened ==
    /\ computers = {}
    /\ users = {}
    /\ groups = {}
    /\ shares = {}
    /\ admin_relations = {}
    /\ group_relations = {}
    /\ loggedin_relations \in {{}, {[id |-> 1, userid |-> 1, computerid |-> 1]}}
    /\ now = 0
    /\ ret = RetNone
    /\ last = [op |-> "init", args |-> None, hit |-> {}, again |-> FALSE,
               respelled |-> FALSE]
    /\ calls = [c \in Callers |-> [op \in RacingOps |-> Idle]]

HostsToStore == HostsToRead \cup {<<Ip5, NoReport>>}

ReportHostToStore == \E h \in HostsToStore : add_computer(h[1], CorpLocal, h[2])

\* rejected until the group and the host are there
ReportPillagedCredential ==
    add_credential(CredentialArgs(Hash, CorpLocal, Bob, "pw1", Some(1), Some(1)))

NextStore ==
    \/ ReportHostToStore
    \/ ReportGroupBrief
    \/ ReportPillagedCredential
    \/ AddShare
    \/ LinkAdminToRead
    \/ clear_database

SpecStore == InitReopened /\ [][NextStore]_vars

(***************************************************************************)
(* Every operation together, on two hosts, one group and two principals    *)
(***************************************************************************)
ReportHosts == \E ip \in Ips : add_computer(ip, CorpLocal, NoReport)

LinkCalls ==
    {CredentialArgs(Hash, CorpLocal, Bob, "pw1", group_id, None) :
        group_id \in {None, Some(1)}}
    \cup {CredentialArgs(Hash, LabDotted, Amy, "pw1", Some(1), None)}

ReportLinkedCredential == \E a \in LinkCalls : add_credential(a)

AddKnownUser == add_user(UserArgs(CorpShort, BobCaps, Some(1)))

RemoveCredentials ==
    \E creds_id \in (SUBSET (1..MaxUserId)) \ {{}} : remove_credentials(creds_id)

UnlinkAdmin ==
    \E ids \in {<<{1}, {}>>, <<{2}, {}>>, <<{}, {1}>>} :
        remove_admin_relation(ids[1], ids[2])

UnlinkGroup ==
    \E ids \in {<<Some(1), None>>, <<None, Some(1)>>} :
        remove_group_relations(ids[1], ids[2])

\* by credential id, and by credential fields with a host pattern that is part
\* of the ip
AdminCalls ==
    {AdminArgs(Hash, CorpLocal, Bob, "pw1", Ip5, Some(id)) : id \in 1..MaxUserId}
    \cup {AdminArgs(Hash, CorpShort, BobCaps, "pw1", <<"1","0">>, None)}

LinkAdmin == \E a \in AdminCalls : add_admin_user(a)

Next ==
    \/ ReportHosts
    \/ ReportGroupBrief
    \/ ReportLinkedCredential
    \/ AddKnownUser
    \/ RemoveCredentials
    \/ LinkAdmin
    \/ UnlinkAdmin
    \/ UnlinkGroup

Spec == Init /\ [][Next]_vars

(***************************************************************************)
(* Properties of report_host (add_computer)                                *)
(***************************************************************************)
HostsWithIp(ip) == {c \in computers : c.ip = ip}

\* C1: report_host called twice in a row with identical arguments, the first
\* call finding no row for the ip, leaves exactly one Host row with that ip.
C1_ReportHostIdempotent ==
    (last.op = "add_computer" /\ last.again)
        => Cardinality(HostsWithIp(last.args.ip)) = 1

C1_Witness ==
    /\ last.op = "add_computer"
    /\ last.again
    /\ last.hit # {}
    /\ Cardinality(computers) = 2
    /\ Cardinality(HostsWithIp(last.args.ip)) = 1

\* C2: on a report_host for an ip that has a row, each optional argument that is
\* None leaves its column as it was and each one that is not None overwrites it,
\* in the same row (same id).
C2_MergeNotReplace ==
    [][ (last'.op = "add_computer" /\ HostsWithIp(last'.args.ip) # {})
          => \A old \in HostsWithIp(last'.args.ip) :
               \E new \in computers' :
                  /\ new.id = old.id
                  /\ new.ip = old.ip
                  /\ \A col \in HostColumns :
                        new[col] = IF last'.args.rep[col] = None
                                   THEN old[col]
                                   ELSE last'.args.rep[col] ]_vars

\* Host(ip, dc=true) then Host(ip, hostname="DC01"): one row, dc=true, hostname DC01
C2_Witness ==
    /\ last.op = "add_computer"
    /\ last.hit # {}
    /\ last.args.rep.dc = None
    /\ last.args.rep.hostname = Some("DC01")
    /\ last.args.rep.os = None
    /\ \E c \in computers :
          /\ HostsWithIp(last.args.ip) = {c}
          /\ c.dc = Some(TRUE)
          /\ c.hostname = Some("DC01")
          /\ c.os = None

\* C3: no two Host rows have the same ip.
C3_HostIpUnique ==
    \A a \in computers : \A b \in computers : a.ip = b.ip => a = b

C3_Witness ==
    /\ last.op = "add_computer"
    /\ last.hit # {}
    /\ \E a \in computers : \E b \in computers : a.ip = Ip5 /\ b.ip = Ip50

(***************************************************************************)
(* Properties of report_credential (add_credential) and add_user           *)
(***************************************************************************)
\* the rows of tbl for a (domain, username) as the caller spelled it
RowsOfPrincipal(tbl, domain, username) ==
    {u \in tbl : /\ Lower(u.domain) = Lower(UpperLetterwise(BeforeFirstDot(domain)))
                 /\ Lower(u.username) = Lower(username)}

\* C4: when a bare credential (username and domain only) exists and
\* report_credential is called with the same domain and username and a
\* populated secret, the store ends with one row for that (domain, username),
\* its secret populated.
C4_PlaceholderCompleted ==
    [][ ( /\ last'.op = "add_credential"
          /\ last'.args.password # ""
          /\ \E u \in RowsOfPrincipal(users, last'.args.domain, last'.args.username) :
                Bare(u) )
        => \E u \in users' :
             /\ RowsOfPrincipal(users', last'.args.domain, last'.args.username) = {u}
             /\ u.password # "" ]_vars

\* C5: a report_credential whose (domain, username, type) matches a row that
\* carries a secret leaves that row's secret, type and pillaged-from source as
\* they were and adds no row, whatever secret it supplies.
C5_PopulatedKept ==
    [][ last'.op = "add_credential"
        => \A old \in UsersMatching(UpperLetterwise(BeforeFirstDot(last'.args.domain)),
                                    last'.args.username, last'.args.credtype) :
             old.password # ""
             => /\ Ids(users') = Ids(users)
                /\ \E new \in users' :
                     /\ new.id = old.id
                     /\ new.password = old.password
                     /\ new.credtype = old.credtype
                     /\ new.pillaged = old.pillaged ]_vars

C5_Witness ==
    /\ last.op = "add_credential"
    /\ \E u \in users :
          /\ u.id \in last.hit
          /\ u.password = "pw1"
          /\ last.args.password = "pw2"
          /\ u.credtype = last.args.credtype
    /\ Cardinality(users) = 1

\* C6: of two report_credential calls in a row that differ only in the spelling
\* of the domain and the letter case of the username, the second inserts no
\* row, and the rows it matches hold the domain the first one stored.
C6_SpellingsMatch ==
    [][ ( /\ last.op = "add_credential" /\ last'.op = "add_credential"
          /\ DiffersOnlyInSpelling(last.args, last'.args) )
        => /\ Ids(users') = Ids(users)
           /\ \A u \in users' :
                 u.id \in last'.hit
                 => u.domain = UpperLetterwise(BeforeFirstDot(last.args.domain)) ]_vars

\* the call before this one, spelled differently, inserted the row this one found
C6_Witness ==
    /\ last.op = "add_credential"
    /\ last.respelled
    /\ last.args.domain = CorpShort /\ last.args.username = BobCaps
    /\ \E u \in users :
          /\ last.hit = {u.id}
          /\ u.username = Bob
          /\ u.domain = CorpShort
          /\ u.password = last.args.password
    /\ Cardinality(users) = 1
    /\ ret.kind = "none"

\* no '.' and no lower-case letter
NormalizedForm(d) ==
    \A i \in 1..Len(d) : d[i] # "." /\ d[i] \notin DOMAIN ToUpper

\* C7: the domain stored in every Host, Credential and Group row is in
\* normalized form: the text before the first '.', in upper case.
C7_DomainsNormalized ==
    /\ \A c \in computers : NormalizedForm(c.domain)
    /\ \A u \in users : NormalizedForm(u.domain)
    /\ \A g \in groups : NormalizedForm(g.domain)

C7_Witness ==
    /\ \E c \in computers : c.domain = CorpShort
    /\ \E g \in groups : g.domain = CorpShort
    /\ \E u \in users : u.domain = <<"L","A","B">>
    /\ \E u \in users : u.domain = CorpShort /\ u.credtype = NoType
    /\ last.op = "add_credential"
    /\ last.args.domain = LabDotted

\* C8: report_credential with a group_id that is no Group's id, or a
\* pillaged_from that is no Host's id, returns no id and leaves the Credential
\* and GroupRelation tables as they were.
C8_DanglingRejected ==
    [][ ( /\ last'.op = "add_credential"
          /\ \/ /\ last'.args.group_id # None
                /\ Val(last'.args.group_id) \notin Ids(groups)
             \/ /\ last'.args.pillaged_from # None
                /\ Val(last'.args.pillaged_from) \notin Ids(computers) )
        => /\ ret'.kind = "none"
           /\ users' = users
           /\ group_relations' = group_relations ]_vars

(***************************************************************************)
(* Properties of the relation tables                                       *)
(***************************************************************************)
\* the (credential, host) pairs the last link_admin call resolved
LastPairs ==
    ZipPairs(RowsInOrder(AdminUsers(last.args)), RowsInOrder(AdminHosts(last.args)))

RowsLinking(pair) ==
    {r \in admin_relations :
        r.userid = pair.userid /\ r.computerid = pair.computerid}

\* C9: link_admin called twice with selectors that resolve to the same
\* (credential, host) pair leaves exactly one AdminRelation row for that pair.
C9_LinkAdminIdempotent ==
    (last.op = "add_admin_user" /\ last.again)
        => \A i \in 1..Len(LastPairs) : Cardinality(RowsLinking(LastPairs[i])) = 1

C9_Witness ==
    /\ last.op = "add_admin_user"
    /\ last.again
    /\ Len(LastPairs) = 1
    /\ RowsLinking(LastPairs[1]) # {}
    /\ last.hit = Ids(RowsLinking(LastPairs[1]))

\* C10: neither AdminRelation nor GroupRelation holds two rows with the same
\* (credential id, host id) or (credential id, group id) pair.
C10_NoDuplicateRelations ==
    /\ \A a \in admin_relations : \A b \in admin_relations :
          (a.userid = b.userid /\ a.computerid = b.computerid) => a = b
    /\ \A a \in group_relations : \A b \in group_relations :
          (a.userid = b.userid /\ a.groupid = b.groupid) => a = b

\* C11: after link_admin, AdminRelation holds exactly one row for every pair
\* (u, h) of a credential u and a host h that the call's selectors resolve to:
\* the whole Cartesian product is linked, nothing twice.
C11_CartesianLinked ==
    last.op = "add_admin_user"
        => \A u \in AdminUsers(last.args) : \A h \in AdminHosts(last.args) :
              Cardinality(RowsLinking([userid |-> u.id, computerid |-> h.id])) = 1

\* C12: remove_admin_relation, called with user_ids or with host_ids, ends
\* without an error, deletes every AdminRelation row that references an id in
\* the set and leaves every other row in place.
C12_UnlinkAdminDeletes ==
    [][ last'.op = "remove_admin_relation"
        => /\ ret'.kind # "raised"
           /\ admin_relations' =
                 IF last'.args.user_ids # {}
                 THEN {r \in admin_relations : r.userid \notin last'.args.user_ids}
                 ELSE {r \in admin_relations :
                          r.computerid \notin last'.args.host_ids} ]_vars

(***************************************************************************)
(* Properties of report_group (add_group)                                  *)
(***************************************************************************)
\* the rows of tbl for a group as the caller spelled it
RowsOfGroup(tbl, a) ==
    {g \in tbl :
        /\ LowerLetterwise(g.domain) = LowerLetterwise(BeforeFirstDot(a.domain))
        /\ LowerLetterwise(g.name) = LowerLetterwise(a.name)}

\* C13: after every report_group there is at most one Group row per
\* (normalized domain, name), letter case aside, and when the call supplied a
\* member count the row of its group holds that count; a call that supplied
\* none leaves every stored count as it was.
C13_OneGroupLatestCount ==
    [][ last'.op = "add_group"
        => /\ \A g \in groups' : \A h \in groups' :
                 ( /\ LowerLetterwise(g.domain) = LowerLetterwise(h.domain)
                   /\ LowerLetterwise(g.name) = LowerLetterwise(h.name) ) => g = h
           /\ \A g \in groups' :
                 g.member_count_ad =
                    IF g \in RowsOfGroup(groups', last'.args)
                       /\ last'.args.member_count_ad # None
                    THEN last'.args.member_count_ad
                    ELSE IF \E o \in groups : o.id = g.id
                    THEN (CHOOSE o \in groups : o.id = g.id).member_count_ad
                    ELSE None ]_vars

\* the same group reported with member count 5 and then 7: one row, count 7,
\* stamped by the second call
C13_Witness ==
    /\ last.op = "add_group"
    /\ last.args.member_count_ad = Some(7)
    /\ last.hit # {}
    /\ now = 2
    /\ \E g \in groups :
          /\ groups = {g}
          /\ g.member_count_ad = Some(7)
          /\ g.last_query_time = Some(2)

\* C14: a report_group without a member count for a group that exists leaves
\* that row's member count and last_query_time as they were, and a row's
\* last_query_time changes only in a report_group that supplies a member count.
C14_UncountedKeepsStamp ==
    [][ \A o \in groups : \A g \in groups' :
          g.id = o.id
          => /\ ( /\ last'.op = "add_group"
                  /\ last'.args.member_count_ad = None
                  /\ o \in RowsOfGroup(groups, last'.args) )
                => /\ g.member_count_ad = o.member_count_ad
                   /\ g.last_query_time = o.last_query_time
             /\ g.last_query_time # o.last_query_time
                => /\ last'.op = "add_group"
                   /\ last'.args.member_count_ad # None ]_vars

\* a counted group reported again without a count, under another spelling
C14_Witness ==
    /\ last.op = "add_group"
    /\ last.args.member_count_ad = None
    /\ last.args.name = AdminsCaps
    /\ \E g \in groups :
          /\ last.hit = {g.id}
          /\ g.name = AdminsCaps
          /\ g.member_count_ad = Some(5)
          /\ g.last_query_time = Some(1)

(***************************************************************************)
(* What report_credential hands back                                       *)
(***************************************************************************)
\* the rows of users' that the step inserted or changed
UsersWritten == {u \in users' : u \notin users}

\* C15: report_credential returns the id of the Credential row it inserted or
\* updated, and returns none exactly when it wrote no Credential row.
C15_ReturnsWrittenId ==
    [][ last'.op = "add_credential"
        => /\ ret'.kind \in {"id", "none"}
           /\ ret'.kind = "none" <=> UsersWritten = {}
           /\ ret'.kind = "id" => \E u \in UsersWritten : u.id = ret'.id ]_vars

(***************************************************************************)
(* Properties of the read accessors                                        *)
(***************************************************************************)
\* the rows the last read handed back
RowsRead ==
    IF ret.kind \in {"rows", "row"} THEN {ret.rows[i] : i \in 1..Len(ret.rows)}
    ELSE {}

\* the table a filtering accessor reads
TableOf(op) ==
    CASE op = "get_computers" -> computers
      [] op = "get_credentials" -> users
      [] op = "get_groups" -> groups
      [] op = "get_shares" -> shares

\* the text column(s) the accessor's substring stage looks at
TextMatch(op, r, term) ==
    CASE op = "get_computers" ->
            \/ Contains(LowerLetterwise(r.ip), LowerLetterwise(term))
            \/ /\ r.hostname # None
               /\ EndsWith(LowerLetterwise(Val(r.hostname)), LowerLetterwise(term))
      [] op = "get_credentials" ->
            Contains(LowerLetterwise(r.username), LowerLetterwise(term))
      [] op = "get_groups" -> Contains(LowerLetterwise(r.name), LowerLetterwise(term))
      [] op = "get_shares" -> Contains(LowerLetterwise(r.name), LowerLetterwise(term))

\* the term is the decimal numeral of n
Spells(term, n) ==
    IF term = None THEN FALSE
    ELSE IF Val(term) = <<>> THEN FALSE
    ELSE IF \E i \in 1..Len(Val(term)) : Val(term)[i] \notin DOMAIN DigitValue
    THEN FALSE
    ELSE IntegerOf(Val(term)) = n

FilteringReads == {"get_computers", "get_credentials", "get_groups", "get_shares"}

\* C16: a filtering read whose term is the id of a row of its table hands back
\* that row and nothing else, whatever the term is part of; when the term is
\* no row's id and no other selector is passed, the result is the domain
\* controllers for the keyword 'dc' (get_computers), else the rows whose
\* text contains the term, else, without a term, every row.
C16_IdLookupFirst ==
    (last.op \in FilteringReads /\ ret.kind # "raised")
    => LET term == last.args.filter_term
           tbl  == TableOf(last.op)
           byid == {r \in tbl : Spells(term, r.id)}
           plain == /\ last.op = "get_credentials" => last.args.cred_type = None
                    /\ last.op = "get_groups" => last.args.group_name = None
       IN  /\ ret.kind \in {"rows", "row"}
           /\ IF byid # {} THEN RowsRead = byid
              ELSE plain
                => IF last.op = "get_computers" /\ term = Some(Keyword)
                   THEN RowsRead =
                          {c \in computers :
                              /\ c.dc = Some(TRUE)
                              /\ last.args.domain # None
                                 => LowerLetterwise(c.domain)
                                      = LowerLetterwise(Val(last.args.domain))}
                   ELSE IF term # None /\ Val(term) # <<>>
                   THEN RowsRead = {r \in tbl : TextMatch(last.op, r, Val(term))}
                   ELSE RowsRead = tbl

\* the term "1" is host 1's id and part of the ip of both hosts: host 1 alone
\* comes back
C16_Witness ==
    /\ last.op = "get_computers"
    /\ last.args.filter_term = Some(One)
    /\ Cardinality(computers) = 2
    /\ \A c \in computers : Contains(c.ip, One)
    /\ \E c \in computers : c.id = 1 /\ RowsRead = {c}

\* C17: every read accessor, whatever optional arguments it is given, hands
\* back a sequence of rows (empty when nothing matches), never an error and
\* never a value that is no sequence.
C17_ReadsReturnSequences ==
    last.op \in FilteringReads \cup {"get_admin_relations", "get_group_relations"}
        => ret.kind = "rows"

(***************************************************************************)
(* References between the tables                                           *)
(***************************************************************************)
\* C18: every AdminRelation row references a Credential and a Host that
\* exist, every GroupRelation row a Credential and a Group that exist, and
\* every Credential's pillaged-from host id, when set, a Host that exists.
\* (No operation of the module writes loggedin_relations.)
C18_ReferencesExist ==
    /\ \A r \in admin_relations :
          r.userid \in Ids(users) /\ r.computerid \in Ids(computers)
    /\ \A r \in group_relations :
          r.userid \in Ids(users) /\ r.groupid \in Ids(groups)
    /\ \A u \in users :
          u.pillaged \notin {None, Blank} => Val(u.pillaged) \in Ids(computers)

\* C19: add_user for a (domain, username) that has a Credential row with a
\* secret leaves that row's secret, type and pillaged-from source as they were.
C19_AddUserKeepsSecret ==
    [][ last'.op = "add_user"
        => \A old \in RowsOfPrincipal(users, last'.args.domain, last'.args.username) :
              old.password # ""
              => \E new \in users' :
                    /\ new.id = old.id
                    /\ new.password = old.password
                    /\ new.credtype = old.credtype
                    /\ new.pillaged = old.pillaged ]_vars

\* add_user, spelled in capitals, found the row that holds bob's secret
C19_Witness ==
    /\ last.op = "add_user"
    /\ last.args.username = BobCaps
    /\ ret.kind = "id"
    /\ \E u \in users :
          /\ last.hit = {u.id}
          /\ ret.id = u.id
          /\ u.username = Bob
          /\ u.password = "pw1"
          /\ u.credtype = Hash

\* the GroupRelation rows of tbl that link this credential to this group
RowsLinkingGroup(tbl, userid, groupid) ==
    {r \in tbl : r.userid = userid /\ r.groupid = groupid}

\* C20: after a report_credential that names a group that exists and matches
\* a Credential row, exactly one GroupRelation row links that credential to
\* that group.
C20_GroupLinkedOnMatch ==
    [][ ( /\ last'.op = "add_credential"
          /\ last'.args.group_id # None
          /\ Val(last'.args.group_id) \in Ids(groups) )
        => \A u \in UsersMatching(UpperLetterwise(BeforeFirstDot(last'.args.domain)),
                                  last'.args.username, last'.args.credtype) :
              Cardinality(RowsLinkingGroup(group_relations', u.id,
                                           Val(last'.args.group_id))) = 1 ]_vars

(***************************************************************************)
(* Two reporters at once                                                   *)
(***************************************************************************)
\* both report_host calls are over, both reported this ip, and both lookups
\* found no row for it
HostRace(ip) ==
    \A c \in Callers :
        /\ calls[c]["add_computer"].pc = "done"
        /\ calls[c]["add_computer"].args.ip = ip
        /\ calls[c]["add_computer"].results = {}

\* both report_credential calls are over, both reported the same (domain,
\* username, type), letter case and the spelling of the domain aside, and both
\* lookups found no row for it
CredentialRace ==
    /\ \A c \in Callers :
          /\ calls[c]["add_credential"].pc = "done"
          /\ calls[c]["add_credential"].results = {}
    /\ \A c \in Callers : \A d \in Callers :
          /\ SamePrincipal(calls[c]["add_credential"].args,
                           calls[d]["add_credential"].args)
          /\ LowerLetterwise(calls[c]["add_credential"].args.credtype)
                = LowerLetterwise(calls[d]["add_credential"].args.credtype)

\* the Credential rows for what this reporter reported
RowsReported(c) ==
    {u \in RowsOfPrincipal(users, calls[c]["add_credential"].args.domain,
                           calls[c]["add_credential"].args.username) :
        LowerLetterwise(u.credtype)
           = LowerLetterwise(calls[c]["add_credential"].args.credtype)}

\* C21: when two report_host calls for an ip without a row both run their
\* lookup before either writes, both insert and the store ends with two Host
\* rows for that ip; two report_credential calls for one new (domain,
\* username, type) that interleave the same way end with two Credential rows.
C21_CheckThenActRace ==
    /\ \A ip \in Ips : HostRace(ip) => Cardinality(HostsWithIp(ip)) = 2
    /\ CredentialRace => \A c \in Callers : Cardinality(RowsReported(c)) = 2

\* the store after both races: two rows for the ip, two for the principal
C21_Witness ==
    /\ HostRace(Ip5)
    /\ Cardinality(computers) = 2
    /\ \A h \in computers : h.ip = Ip5
    /\ CredentialRace
    /\ Cardinality(users) = 2
    /\ \E u \in users : u.password = "pw1"
    /\ \E u \in users : u.password = "pw2"

(***************************************************************************)
(* What report_group hands back                                            *)
(***************************************************************************)
\* C22: report_group returns the id of the Group row it touched: the id of the
\* row it inserted when no row matched, else the id of the last matching row
\* it updated.
C22_GroupReturnsTouchedId ==
    [][ last'.op = "add_group"
        => /\ ret'.kind = "id"
           /\ ret'.id = IF last'.hit = {} THEN NextId(groups)
                        ELSE MaxOf(last'.hit) ]_vars

(***************************************************************************)
(* The bulk reset                                                          *)
(***************************************************************************)
\* C23: after clear_database, from any reachable state, all seven tables
\* (hosts, credentials, groups, shares, admin, group and login relations) are
\* empty.
C23_ClearEmptiesEveryTable ==
    [][ last'.op = "clear_database"
        => /\ computers' = {} /\ users' = {} /\ groups' = {} /\ shares' = {}
           /\ admin_relations' = {} /\ group_relations' = {}
           /\ loggedin_relations' = {} ]_vars

\* the reset has run on a store in which each of the seven tables held a row
C23_Witness ==
    /\ last.op = "clear_database"
    /\ Cardinality(last.hit) = 7
    /\ computers = {} /\ users = {} /\ groups = {} /\ shares = {}
    /\ admin_relations = {} /\ group_relations = {} /\ loggedin_relations = {}

(***************************************************************************)
(* What completing a placeholder leaves alone                              *)
(***************************************************************************)
\* the step is a report_credential that found a bare row and ran to its end
CompletesPlaceholder ==
    /\ last'.op = "add_credential"
    /\ ret'.kind = "id"
    /\ \E u \in users : u.id \in last'.hit /\ Bare(u)

\* C24: when report_credential completes a bare placeholder match, every
\* Credential row that does not match the reported (domain, username, type)
\* keeps all of its column values, and no GroupRelation row other than the one
\* for (that credential, group_id) is changed.
C24_CompletionLeavesOthers ==
    [][ CompletesPlaceholder
        => /\ \A u \in users : u.id \notin last'.hit => u \in users'
           /\ \A r \in (group_relations \ group_relations')
                       \cup (group_relations' \ group_relations) :
                 /\ r.userid \in last'.hit
                 /\ last'.args.group_id = Some(r.groupid) ]_vars

(***************************************************************************)
(* Host ids under report_host                                              *)
(***************************************************************************)
\* the host ids that rows of the other tables refer to
HostsReferred(adm, logged, shr, usr) ==
    {r.computerid : r \in adm} \cup {r.computerid : r \in logged}
    \cup {r.computerid : r \in shr}
    \cup {Val(u.pillaged) : u \in {v \in usr : v.pillaged # None}}

\* the ips of the rows with this id
IpsOfHost(table, id) == {c.ip : c \in {h \in table : h.id = id}}

ReportOps ==
    {"add_computer", "add_credential", "add_user", "add_group", "add_share",
     "add_admin_user"}

\* C25: report_host on an ip that has a Host row keeps that row's id, so every
\* AdminRelation, LoginRelation, Share and pillaged-from reference to a host
\* refers to the same host afterwards; and no report operation makes the
\* number of Host rows smaller.
C25_ReportHostKeepsId ==
    [][ /\ (last'.op = "add_computer" /\ last'.hit # {})
           => /\ Ids(computers') = Ids(computers)
              /\ Ids({h \in computers' : h.ip = last'.args.ip}) = last'.hit
              /\ HostsReferred(admin_relations', loggedin_relations', shares',
                               users')
                    = HostsReferred(admin_relations, loggedin_relations, shares,
                                    users)
              /\ \A id \in HostsReferred(admin_relations, loggedin_relations,
                                         shares, users) :
                    IpsOfHost(computers', id) = IpsOfHost(computers, id)
        /\ last'.op \in ReportOps
           => Cardinality(computers') >= Cardinality(computers) ]_vars

\* report_host has rewritten host 1, which an admin relation, a login
\* relation, a share and a pillaged credential refer to
C25_Witness ==
    /\ last.op = "add_computer"
    /\ last.hit = {1}
    /\ \E c \in computers : c.id = 1 /\ c.ip = Ip5 /\ c.dc = Some(TRUE)
    /\ \E r \in admin_relations : r.computerid = 1
    /\ \E r \in loggedin_relations : r.computerid = 1
    /\ \E r \in shares : r.computerid = 1
    /\ \E u \in users : u.pillaged = Some(1)

(***************************************************************************)
(* Shares by access                                                        *)
(***************************************************************************)
\* the letter is among the permissions asked for, in either case
Asks(permissions, letter) == Contains(LowerLetterwise(permissions), <<letter>>)

\* C26: get_shares_by_access returns only shares that satisfy the requested
\* filters (readable ones when permissions contains 'r', writable ones when it
\* contains 'w', the share with the given id when share_id is supplied), and
\* get_users_with_share_access returns only users whose share row has the
\* requested read / write flags.
C26_SharesFilteredByAccess ==
    /\ last.op = "get_shares_by_access"
       => /\ ret.kind = "rows"
          /\ \A s \in RowsRead :
                /\ Asks(last.args.permissions, "r") => s.read
                /\ Asks(last.args.permissions, "w") => s.write
                /\ TruthyId(last.args.share_id)
                      => s.id = Val(last.args.share_id)
    /\ last.op = "get_users_with_share_access"
       => /\ ret.kind = "rows"
          /\ \A row \in RowsRead :
                \E s \in shares :
                   /\ s.userid = row.userid
                   /\ s.name = last.args.share_name
                   /\ s.computerid = last.args.computer_id
                   /\ Asks(last.args.permissions, "r") => s.read
                   /\ Asks(last.args.permissions, "w") => s.write

====
